---- MODULE Spec2Model ----
(***************************************************************************)
(* Model of the karyotype parsing-and-scoring engine of                    *)
(* My_expert_karyo_functions.py.  A Python str is a sequence of one-       *)
(* character strings; regular expressions are modelled by operators that   *)
(* accept exactly the language of the pattern used in the source.          *)
(***************************************************************************)
EXTENDS Integers, Sequences, FiniteSets, TLC

(***************************************************************************)
(* Python str primitives                                                   *)
(***************************************************************************)
Digits == {"0", "1", "2", "3", "4", "5", "6", "7", "8", "9"}

WhiteSpace == {" "}

\* s.startswith(p)
StartsWith(s, p) == Len(s) >= Len(p) /\ SubSeq(s, 1, Len(p)) = p

\* p occurs in s at index i (1-based)
MatchAt(s, i, p) == i >= 1 /\ i + Len(p) - 1 <= Len(s) /\ SubSeq(s, i, i + Len(p) - 1) = p

\* p in s
Contains(s, p) == \E i \in 1..(Len(s) + 1) : MatchAt(s, i, p)

\* least element of a non-empty set of integers
MinOf(S) == CHOOSE x \in S : \A y \in S : x <= y

MaxOf(S) == CHOOSE x \in S : \A y \in S : x >= y

\* the characters of s that belong to keep, in order
FilterChars(s, keep) ==
    LET Kept(c) == c \in keep IN SelectSeq(s, Kept)

\* re.sub(r"\s+", "", s)
RemoveWhitespace(s) ==
    LET NotSpace(c) == c \notin WhiteSpace IN SelectSeq(s, NotSpace)

\* re.sub(r"\D", "", s)
DigitsOf(s) == FilterChars(s, Digits)

\* s.split(sep) for a one-character separator: one piece more than separators
Split(s, sep) ==
    LET seps == {i \in 1..Len(s) : s[i] = sep}
        \* position of the k-th separator; 0 before the first, Len(s)+1 after the last
        SepPos(k) == IF k = 0 THEN 0
                     ELSE IF k > Cardinality(seps) THEN Len(s) + 1
                     ELSE CHOOSE i \in seps : Cardinality({j \in seps : j < i}) = k - 1
    IN [k \in 1..(Cardinality(seps) + 1) |-> SubSeq(s, SepPos(k - 1) + 1, SepPos(k) - 1)]

\* s.lstrip(chars) / s.rstrip(chars) / s.strip(chars)
LStrip(s, chars) ==
    LET keep == {i \in 1..Len(s) : s[i] \notin chars}
    IN IF keep = {} THEN <<>> ELSE SubSeq(s, MinOf(keep), Len(s))

RStrip(s, chars) ==
    LET keep == {i \in 1..Len(s) : s[i] \notin chars}
    IN IF keep = {} THEN <<>> ELSE SubSeq(s, 1, MaxOf(keep))

Strip(s, chars) == RStrip(LStrip(s, chars), chars)

\* index of the first occurrence of character c in s at or after i, 0 if none
IndexFrom(s, c, i) ==
    LET at == {j \in i..Len(s) : s[j] = c}
    IN IF at = {} THEN 0 ELSE MinOf(at)

\* re.sub(r"\[.*?\]", "", s): every leftmost, shortest "[...]" is removed; the
\* scan restarts after each removed span
RECURSIVE RemoveBracketsFrom(_, _)
RemoveBracketsFrom(s, i) ==
    LET open == IndexFrom(s, "[", i)
        close == IF open = 0 THEN 0 ELSE IndexFrom(s, "]", open + 1)
    IN IF close = 0 THEN SubSeq(s, i, Len(s))
       ELSE SubSeq(s, i, open - 1) \o RemoveBracketsFrom(s, close + 1)

RemoveBrackets(s) == RemoveBracketsFrom(s, 1)

\* int(s) for a string of ASCII digits; int("") raises ValueError
RECURSIVE IntOf(_)
IntOf(s) ==
    IF s = <<>> THEN 0
    ELSE 10 * IntOf(SubSeq(s, 1, Len(s) - 1))
         + (CHOOSE d \in 0..9 : <<"0", "1", "2", "3", "4", "5", "6", "7", "8", "9">>[d + 1] = s[Len(s)])

\* end index of the maximal run of characters of set cs starting at i (i-1 if none)
RunEnd(s, i, cs) ==
    LET stop == {j \in i..Len(s) : s[j] \notin cs}
    IN IF stop = {} THEN Len(s) ELSE MinOf(stop) - 1

\* the elements of a sequence, and its distinct elements in first-occurrence order
Range(q) == {q[i] : i \in 1..Len(q)}

RECURSIVE DistinctFrom(_, _)
DistinctFrom(q, seen) ==
    IF q = <<>> THEN <<>>
    ELSE IF Head(q) \in seen THEN DistinctFrom(Tail(q), seen)
    ELSE <<Head(q)>> \o DistinctFrom(Tail(q), seen \cup {Head(q)})

\* keys of Counter(q), in insertion order
CounterKeys(q) == DistinctFrom(q, {})

\* Counter(q)[k]
CountOf(q, k) == Cardinality({i \in 1..Len(q) : q[i] = k})

(***************************************************************************)
(* String literals of the source                                           *)
(***************************************************************************)
DER == <<"d", "e", "r">>

DIC == <<"d", "i", "c">>

DEL == <<"d", "e", "l">>

DUP == <<"d", "u", "p">>

INS == <<"i", "n", "s">>

T1 == <<"t">>

I1 == <<"i">>

IDER == <<"i", "d", "e", "r">>

IDIC == <<"i", "d", "i", "c">>

R1 == <<"r">>

PLUS == <<"+">>

MINUS == <<"-">>

TRP == <<"t", "r", "p">>

TPAR == <<"t", "(">>

INSPAR == <<"i", "n", "s", "(">>

RPAR == <<"r", "(">>

RPLP == <<")", "(">>

ADD == <<"a", "d", "d">>

HSR == <<"h", "s", "r">>

DMIN == <<"d", "m", "i", "n">>

TILDE == <<"~">>

PLUSMAR == <<"+", "m", "a", "r">>

PLOIDY2N == <<"<", "2", "n", ">">>

IPAR == <<"i", "(">>

ISO == <<"i", "s", "o">>

Tetraploidy == <<"T", "e", "t", "r", "a", "p", "l", "o", "i", "d", "y">>

Triploidy == <<"T", "r", "i", "p", "l", "o", "i", "d", "y">>


(***************************************************************************)
(* get_chromosomes                                                         *)
(***************************************************************************)
\* the alternation (?:der|dic|del|dup|ins|t|i|ider|idic|r), in source order
ChromKeywords == <<DER, DIC, DEL, DUP, INS, T1, I1, IDER, IDIC, R1>>

ChromChars == Digits \cup {";"}

\* the pattern matches at i with keyword kw: kw, then "(", then one or more of [0-9;]
KeywordAt(s, i, kw) ==
    /\ MatchAt(s, i, kw)
    /\ i + Len(kw) + 1 <= Len(s)
    /\ s[i + Len(kw)] = "("
    /\ s[i + Len(kw) + 1] \in ChromChars

\* the numbers captured by the match that starts at i with keyword kw
CapturedAt(s, i, kw) ==
    Range(Split(SubSeq(s, i + Len(kw) + 1, RunEnd(s, i + Len(kw) + 1, ChromChars)), ";"))

\* re.finditer: the union of the captures of all matches.  A match that starts
\* inside an earlier one starts inside its keyword ("der(" inside "ider(") and
\* captures the same group, so the union over all start indices is the union
\* over the leftmost non-overlapping matches
ChromScan(s) ==
    UNION {CapturedAt(s, i, ChromKeywords[k]) :
              <<i, k>> \in {<<j, h>> \in (1..Len(s)) \X (1..Len(ChromKeywords)) :
                               KeywordAt(s, j, ChromKeywords[h])}}

get_chromosomes(anom) == ChromScan(anom)

(***************************************************************************)
(* Anomaly predicates                                                      *)
(***************************************************************************)
is_single_chr_deseq(anom, count) ==
    \/ StartsWith(anom, PLUS) /\ count > 1
    \/ StartsWith(anom, TRP)
    \/ StartsWith(anom, IDER)

\* end index of \d+(?:;\d+)+ starting at i, 0 if it does not match there
RECURSIVE NumListEnd(_, _, _)
NumListEnd(s, i, n) ==
    LET e == RunEnd(s, i, Digits)
    IN IF e < i THEN 0
       ELSE IF e + 1 <= Len(s) /\ s[e + 1] = ";" /\ NumListEnd(s, e + 2, n + 1) # 0
            THEN NumListEnd(s, e + 2, n + 1)
       ELSE IF n >= 2 THEN e
       ELSE 0

\* re.match(r'^kw\(\d+(?:;\d+)+\)\(.+\)$', s), kw already followed by "("
ShapeMatch(s, kw) ==
    /\ StartsWith(s, kw)
    /\ LET e == NumListEnd(s, Len(kw) + 1, 1)
       IN /\ e # 0
          /\ MatchAt(s, e + 1, RPLP)
          /\ Len(s) >= e + 4
          /\ s[Len(s)] = ")"

is_balanced_translocation(anom) ==
    /\ ShapeMatch(anom, TPAR)
    /\ ~Contains(anom, DER)
    /\ ~Contains(anom, PLUS)
    /\ ~Contains(anom, MINUS)

\* every t(...) counts as unbalanced, the balanced shape is not exempted
is_unbalanced_translocation_any(anom) ==
    \/ (Contains(anom, DER) \/ Contains(anom, DIC)) /\ Contains(anom, TPAR)
    \/ Contains(anom, TPAR)

is_unbalanced_translocation(anom) ==
    \/ (Contains(anom, DER) \/ Contains(anom, DIC)) /\ Contains(anom, TPAR)
    \/ Contains(anom, TPAR) /\ ~is_balanced_translocation(anom)

is_balanced_insertion(anom) ==
    /\ ShapeMatch(anom, INSPAR)
    /\ ~Contains(anom, DER)
    /\ ~Contains(anom, PLUS)
    /\ ~Contains(anom, MINUS)

\* off by one in the size test: two chromosomes are not yet "multi"
is_complex_multichr_deseq_strict(anom) ==
    IF Cardinality(get_chromosomes(anom)) <= 2 THEN FALSE
    ELSE \/ StartsWith(anom, DER) \/ StartsWith(anom, DIC) \/ StartsWith(anom, RPAR)
         \/ Contains(anom, INSPAR) /\ ~is_balanced_insertion(anom)
         \/ Contains(anom, TPAR) /\ ~is_balanced_translocation(anom)

is_complex_multichr_deseq(anom) ==
    IF Cardinality(get_chromosomes(anom)) <= 1 THEN FALSE
    ELSE \/ StartsWith(anom, DER) \/ StartsWith(anom, DIC) \/ StartsWith(anom, RPAR)
         \/ Contains(anom, INSPAR) /\ ~is_balanced_insertion(anom)
         \/ Contains(anom, TPAR) /\ ~is_balanced_translocation(anom)

(***************************************************************************)
(* type_anomalie                                                           *)
(***************************************************************************)
\* a category: its label (written without diacritics) and, for gains and losses,
\* the digits appended to it
Cat(label) == [label |-> label, num |-> <<>>]

\* rule 11 tests 'der' in anom instead of anom.startswith('der')
type_anomalie_der_anywhere(anom) ==
    IF is_complex_multichr_deseq(anom) THEN Cat("Multichromosomique desequilibree")
    ELSE IF is_balanced_translocation(anom) THEN Cat("Translocation equilibree")
    ELSE IF is_unbalanced_translocation(anom) THEN Cat("Translocation desequilibree")
    ELSE IF is_balanced_insertion(anom) THEN Cat("Insertion equilibree")
    ELSE IF anom = PLOIDY2N THEN Cat("Ploidy")
    ELSE IF Contains(anom, TILDE) THEN Cat("Pleiade chromosomique")
    ELSE IF anom = PLUSMAR THEN Cat("Chromosome marqueur")
    ELSE IF Contains(anom, DMIN) THEN Cat("Double minutes")
    ELSE IF StartsWith(anom, HSR) THEN Cat("Homogeneously staining region")
    ELSE IF StartsWith(anom, RPAR) THEN Cat("Anneau")
    ELSE IF Contains(anom, DER) THEN Cat("Chromosome derive")
    ELSE IF StartsWith(anom, INS) THEN Cat("Insertion")
    ELSE IF StartsWith(anom, TPAR) THEN Cat("Translocation")
    ELSE IF StartsWith(anom, PLUS) THEN [label |-> "Gain chr", num |-> DigitsOf(anom)]
    ELSE IF StartsWith(anom, MINUS) THEN [label |-> "Perte chr", num |-> DigitsOf(anom)]
    ELSE IF StartsWith(anom, DUP) THEN Cat("Duplication")
    ELSE IF StartsWith(anom, DEL) THEN Cat("Deletion")
    ELSE IF StartsWith(anom, TRP) THEN Cat("Triplication/Quadruplication")
    ELSE IF StartsWith(anom, DIC) THEN Cat("Chromosome dicentrique")
    ELSE IF StartsWith(anom, IDIC) THEN Cat("Isodicentric chromosome")
    ELSE IF StartsWith(anom, IDER) THEN Cat("Isoderivative chromosome")
    ELSE IF StartsWith(anom, IPAR) \/ Contains(anom, ISO) THEN Cat("Isochromosome")
    ELSE Cat("Autre")

type_anomalie(anom) ==
    IF is_complex_multichr_deseq(anom) THEN Cat("Multichromosomique desequilibree")
    ELSE IF is_balanced_translocation(anom) THEN Cat("Translocation equilibree")
    ELSE IF is_unbalanced_translocation(anom) THEN Cat("Translocation desequilibree")
    ELSE IF is_balanced_insertion(anom) THEN Cat("Insertion equilibree")
    ELSE IF anom = PLOIDY2N THEN Cat("Ploidy")
    ELSE IF Contains(anom, TILDE) THEN Cat("Pleiade chromosomique")
    ELSE IF anom = PLUSMAR THEN Cat("Chromosome marqueur")
    ELSE IF Contains(anom, DMIN) THEN Cat("Double minutes")
    ELSE IF StartsWith(anom, HSR) THEN Cat("Homogeneously staining region")
    ELSE IF StartsWith(anom, RPAR) THEN Cat("Anneau")
    ELSE IF StartsWith(anom, DER) THEN Cat("Chromosome derive")
    ELSE IF StartsWith(anom, INS) THEN Cat("Insertion")
    ELSE IF StartsWith(anom, TPAR) THEN Cat("Translocation")
    ELSE IF StartsWith(anom, PLUS) THEN [label |-> "Gain chr", num |-> DigitsOf(anom)]
    ELSE IF StartsWith(anom, MINUS) THEN [label |-> "Perte chr", num |-> DigitsOf(anom)]
    ELSE IF StartsWith(anom, DUP) THEN Cat("Duplication")
    ELSE IF StartsWith(anom, DEL) THEN Cat("Deletion")
    ELSE IF StartsWith(anom, TRP) THEN Cat("Triplication/Quadruplication")
    ELSE IF StartsWith(anom, DIC) THEN Cat("Chromosome dicentrique")
    ELSE IF StartsWith(anom, IDIC) THEN Cat("Isodicentric chromosome")
    ELSE IF StartsWith(anom, IDER) THEN Cat("Isoderivative chromosome")
    ELSE IF StartsWith(anom, IPAR) \/ Contains(anom, ISO) THEN Cat("Isochromosome")
    ELSE Cat("Autre")

(***************************************************************************)
(* normalize_anomaly                                                       *)
(***************************************************************************)
\* the leading '?' is kept
normalize_anomaly_keep(anom) == anom

normalize_anomaly(anom) == LStrip(anom, {"?"})

\* [normalize_anomaly(a) for a in anomalies]
Normalized(anomalies) == [i \in 1..Len(anomalies) |-> normalize_anomaly(anomalies[i])]

(***************************************************************************)
(* detect_implicit_anomalies                                               *)
(***************************************************************************)
\* keys of norm_counts = Counter(normalize_anomaly(a) for a in anomalies)
NormKeys(anomalies) == CounterKeys(Normalized(anomalies))

\* norm_to_orig[norm]: the first raw anomaly that normalizes to norm
norm_to_orig(anomalies, norm) ==
    anomalies[CHOOSE i \in 1..Len(anomalies) :
                  /\ normalize_anomaly(anomalies[i]) = norm
                  /\ \A j \in 1..(i - 1) : normalize_anomaly(anomalies[j]) # norm]

\* t\((\d+);(\d+)\) matches at index k of s
TPairAt(s, k) ==
    /\ MatchAt(s, k, TPAR)
    /\ LET e1 == RunEnd(s, k + 2, Digits)
       IN /\ e1 >= k + 2
          /\ e1 + 1 <= Len(s) /\ s[e1 + 1] = ";"
          /\ LET e2 == RunEnd(s, e1 + 2, Digits)
             IN e2 >= e1 + 2 /\ e2 + 1 <= Len(s) /\ s[e2 + 1] = ")"

\* index just after (?:der|dic)\((\d+)\) matched at the start of s, 0 if no match
DerHeadEnd(s) ==
    IF ~(StartsWith(s, DER) \/ StartsWith(s, DIC)) THEN 0
    ELSE IF ~(Len(s) >= 4 /\ s[4] = "(") THEN 0
    ELSE LET e == RunEnd(s, 5, Digits)
         IN IF e >= 5 /\ e + 1 <= Len(s) /\ s[e + 1] = ")" THEN e + 2 ELSE 0

\* re.match(r"(?:der|dic)\((\d+)\).*t\((\d+);(\d+)\)", an) succeeds
TEventMatch(an) ==
    /\ DerHeadEnd(an) # 0
    /\ \E k \in DerHeadEnd(an)..Len(an) : TPairAt(an, k)

\* the greedy .* makes the match use the last t(A;B) of the token
TEventPos(an) ==
    CHOOSE k \in DerHeadEnd(an)..Len(an) :
        TPairAt(an, k) /\ \A h \in (k + 1)..Len(an) : ~TPairAt(an, h)

TEventA(an) == SubSeq(an, TEventPos(an) + 2, RunEnd(an, TEventPos(an) + 2, Digits))

TEventB(an) ==
    LET e1 == RunEnd(an, TEventPos(an) + 2, Digits)
    IN SubSeq(an, e1 + 2, RunEnd(an, e1 + 2, Digits))

\* the key without sorted(): the pair in the order written
TEventKeyUnsorted(an) == <<TEventA(an), TEventB(an)>>

\* key = tuple(sorted([A, B])): a canonical form of the unordered pair
TEventKey(an) == {TEventA(an), TEventB(an)}

\* t_events[key]: the matching tokens with that key, in norm_counts order
RECURSIVE TEventGroup(_, _)
TEventGroup(keys, key) ==
    IF keys = <<>> THEN <<>>
    ELSE IF TEventMatch(Head(keys)) /\ TEventKey(Head(keys)) = key
         THEN <<Head(keys)>> \o TEventGroup(Tail(keys), key)
    ELSE TEventGroup(Tail(keys), key)

\* re.search(r"add|del|dup", d)
IsExplicit(d) == Contains(d, ADD) \/ Contains(d, DEL) \/ Contains(d, DUP)

\* explicits = [d for d in ders if re.search(r"add|del|dup", d)]
RECURSIVE Explicits(_)
Explicits(ders) ==
    IF ders = <<>> THEN <<>>
    ELSE IF IsExplicit(Head(ders)) THEN <<Head(ders)>> \o Explicits(Tail(ders))
    ELSE Explicits(Tail(ders))

\* rule 1 writes implicit[an]
ImplicitDerivative(keys, an) ==
    /\ TEventMatch(an)
    /\ Explicits(TEventGroup(keys, TEventKey(an))) # <<>>
    /\ ~IsExplicit(an)

\* t\(([0-9;]+)\) matches at index i of s
TListAt(s, i) ==
    /\ MatchAt(s, i, TPAR)
    /\ LET e == RunEnd(s, i + 2, ChromChars)
       IN e >= i + 2 /\ e + 1 <= Len(s) /\ s[e + 1] = ")"

\* re.finditer(r"t\(([0-9;]+)\)", an): the chromosomes of every match (two
\* matches never overlap, each starts with the letter t)
TListChroms(s) ==
    UNION {Range(Split(SubSeq(s, i + 2, RunEnd(s, i + 2, ChromChars)), ";")) :
              i \in {j \in 1..Len(s) : TListAt(s, j)}}

\* re.match(r"^(?:der|dic)\(([0-9;]+)\)", an) succeeds
MultiHeadMatch(an) ==
    /\ StartsWith(an, DER) \/ StartsWith(an, DIC)
    /\ Len(an) >= 4 /\ an[4] = "("
    /\ LET e == RunEnd(an, 5, ChromChars)
       IN e >= 5 /\ e + 1 <= Len(an) /\ an[e + 1] = ")"

\* chrs: the der(...)/dic(...) list plus every t(...) list of the token
DerChroms(an) ==
    Range(Split(SubSeq(an, 5, RunEnd(an, 5, ChromChars)), ";")) \cup TListChroms(an)

\* the token registers itself under each of its chromosomes
RegistersMulti(an) == MultiHeadMatch(an) /\ Cardinality(DerChroms(an)) > 1

\* multi_der[c]: the registering tokens whose chrs contain c, in norm_counts order
RECURSIVE multi_der(_, _)
multi_der(keys, c) ==
    IF keys = <<>> THEN <<>>
    ELSE IF RegistersMulti(Head(keys)) /\ c \in DerChroms(Head(keys))
         THEN <<Head(keys)>> \o multi_der(Tail(keys), c)
    ELSE multi_der(Tail(keys), c)

\* rule 2 writes implicit[an]
ImplicitGainLoss(keys, an) ==
    /\ StartsWith(an, PLUS) \/ StartsWith(an, MINUS)
    /\ multi_der(keys, DigitsOf(an)) # <<>>

\* the returned dict: rule 2 is applied after rule 1 and overwrites it
detect_implicit_anomalies(anomalies) ==
    LET keys == NormKeys(anomalies)
    IN [an \in {a \in Range(keys) : ImplicitDerivative(keys, a) \/ ImplicitGainLoss(keys, a)} |->
           IF ImplicitGainLoss(keys, an)
           THEN [reason |-> "Gain/perte implicite",
                 ref |-> norm_to_orig(anomalies, multi_der(keys, DigitsOf(an))[1])]
           ELSE [reason |-> "Derive implicite",
                 ref |-> norm_to_orig(anomalies, Explicits(TEventGroup(keys, TEventKey(an)))[1])]]

(***************************************************************************)
(* parse_caryotype                                                         *)
(***************************************************************************)
\* clones = [re.sub(r"\[.*?\]", "", c) for c in chaine_iscn.split('/')], after
\* chaine_iscn = re.sub(r"\s+", "", chaine_iscn)
ClonesOf(chaine_iscn) ==
    LET cs == Split(RemoveWhitespace(chaine_iscn), "/")
    IN [i \in 1..Len(cs) |-> RemoveBrackets(cs[i])]

\* the filter of the comprehension: a piece is kept when p.strip() is non-empty
KeepPiece(p) == Strip(p, WhiteSpace) # <<>>

\* parts = [p.strip().strip('.') for p in clone.split(',') if p.strip()]
RECURSIVE PartsFrom(_)
PartsFrom(pieces) ==
    IF pieces = <<>> THEN <<>>
    ELSE IF KeepPiece(Head(pieces))
         THEN <<Strip(Strip(Head(pieces), WhiteSpace), {"."})>> \o PartsFrom(Tail(pieces))
    ELSE PartsFrom(Tail(pieces))

PartsOf(clone) == PartsFrom(Split(clone, ","))

\* the value of the local pl; UNBOUND before its first assignment
UNBOUND == <<"<unbound>">>

\* the body of the try block: the exception it raises ("none" if it completes),
\* the value of pl it leaves and whether anomalies.append(pl) was executed
PloidyBlock(parts, pl) ==
    IF parts = <<>>
    THEN [exc |-> "IndexError", pl |-> pl, emit |-> FALSE]
    ELSE IF DigitsOf(parts[1]) = <<>>
    THEN [exc |-> "ValueError", pl |-> pl, emit |-> FALSE]
    ELSE LET total == IntOf(DigitsOf(parts[1]))
             npl == IF total = 92 THEN Tetraploidy
                    ELSE IF total = 69 THEN Triploidy
                    ELSE pl
         IN IF total = 46 THEN [exc |-> "none", pl |-> pl, emit |-> FALSE]
            ELSE IF npl = UNBOUND THEN [exc |-> "UnboundLocalError", pl |-> npl, emit |-> FALSE]
            ELSE [exc |-> "none", pl |-> npl, emit |-> TRUE]

\* a handler narrowed to "except ValueError"
CaughtInParseValueError(e) == e = "ValueError"

\* "except Exception: pass" catches every exception of the try block
CaughtInParse(e) == TRUE

\* clone_map.setdefault(k, []).append(v)
SetDefaultAppend(m, k, v) ==
    IF k \in DOMAIN m THEN [m EXCEPT ![k] = Append(@, v)] ELSE m @@ (k :> <<v>>)

RECURSIVE AppendAll(_, _, _)
AppendAll(m, toks, idx) ==
    IF toks = <<>> THEN m
    ELSE AppendAll(SetDefaultAppend(m, Head(toks), idx), Tail(toks), idx)

\* parts[2:]
SliceFrom2(parts) == SubSeq(parts, 3, Len(parts))

\* the locals of parse_caryotype before the loop
ParseStart ==
    [pl |-> UNBOUND, anomalies |-> <<>>, clone_map |-> << >>, caught |-> <<>>, exc |-> "none"]

\* the loop body for the clone numbered i: ploidy detection, then the anomalies
\* parts[2:]; an exception the try block does not catch leaves the function
CloneStep(st, clone, i) ==
    LET parts == PartsOf(clone)
        blk == PloidyBlock(parts, st.pl)
        emitted == IF blk.emit THEN <<blk.pl>> ELSE <<>>
    IN IF blk.exc # "none" /\ ~CaughtInParse(blk.exc)
       THEN [st EXCEPT !.pl = blk.pl, !.exc = blk.exc]
       ELSE [pl |-> blk.pl,
             anomalies |-> st.anomalies \o emitted \o SliceFrom2(parts),
             clone_map |-> AppendAll(st.clone_map, emitted \o SliceFrom2(parts), i),
             caught |-> Append(st.caught, blk.exc),
             exc |-> "none"]

\* the whole loop over clones[i+1..]
RECURSIVE ParseLoop(_, _, _)
ParseLoop(st, cls, i) ==
    IF i >= Len(cls) \/ st.exc # "none" THEN st
    ELSE ParseLoop(CloneStep(st, cls[i + 1], i + 1), cls, i + 1)

parse_caryotype(chaine_iscn) == ParseLoop(ParseStart, ClonesOf(chaine_iscn), 0)

(***************************************************************************)
(* calcul_scores                                                           *)
(***************************************************************************)
Expl(text) == [text |-> text, reason |-> "", ref |-> <<>>]

\* re.match(r"^\+\d+c$", norm)
IsConstitutional(norm) ==
    /\ Len(norm) >= 3
    /\ norm[1] = "+"
    /\ norm[Len(norm)] = "c"
    /\ \A i \in 2..(Len(norm) - 1) : norm[i] \in Digits

\* the body of branch c, "elif norm.startswith(('+', '-'))"
GainLossBlock(norm, cnt_norm) ==
    IF is_single_chr_deseq(norm, cnt_norm)
    THEN [score |-> 2, expl |-> Expl("Desequilibre unichromosomique (2 points)")]
    ELSE IF is_complex_multichr_deseq(norm)
    THEN [score |-> 2, expl |-> Expl("Desequilibre multichromosomique complexe (2 points)")]
    ELSE IF is_unbalanced_translocation(norm)
    THEN [score |-> 2, expl |-> Expl("Translocation desequilibree (2 points)")]
    ELSE [score |-> 1, expl |-> Expl("Anomalie standard (1 point)")]

\* branch e without the test of is_single_chr_deseq
StandardBlockNoSingle(norm, cnt_norm) ==
    IF is_complex_multichr_deseq(norm)
    THEN [score |-> 2, expl |-> Expl("Desequilibre multichromosomique complexe (2 points)")]
    ELSE IF is_unbalanced_translocation(norm)
    THEN [score |-> 2, expl |-> Expl("Translocation desequilibree (2 points)")]
    ELSE [score |-> 1, expl |-> Expl("Anomalie standard (1 point)")]

\* the body of branch e, the final "else"
StandardBlock(norm, cnt_norm) ==
    IF is_single_chr_deseq(norm, cnt_norm)
    THEN [score |-> 2, expl |-> Expl("Desequilibre unichromosomique (2 points)")]
    ELSE IF is_complex_multichr_deseq(norm)
    THEN [score |-> 2, expl |-> Expl("Desequilibre multichromosomique complexe (2 points)")]
    ELSE IF is_unbalanced_translocation(norm)
    THEN [score |-> 2, expl |-> Expl("Translocation desequilibree (2 points)")]
    ELSE [score |-> 1, expl |-> Expl("Anomalie standard (1 point)")]

\* the if/elif chain of the loop body: score_i and explication
ScoreISCN(norm, cnt_norm, implicit_info) ==
    IF IsConstitutional(norm)
    THEN [score |-> 0, expl |-> Expl("Anomalie constitutionnelle (0 point)")]
    ELSE IF norm \in DOMAIN implicit_info
    THEN [score |-> 0,
          expl |-> [text |-> "(0 point)", reason |-> implicit_info[norm].reason,
                    ref |-> implicit_info[norm].ref]]
    ELSE IF StartsWith(norm, PLUS) \/ StartsWith(norm, MINUS)
    THEN GainLossBlock(norm, cnt_norm)
    ELSE IF StartsWith(norm, DIC)
    THEN [score |-> 2, expl |-> Expl("Chromosome dicentrique (2 points)")]
    ELSE StandardBlock(norm, cnt_norm)

\* the rows are keyed by the normalized anomalies instead of the raw strings
CountKeysNormalized(anoms) == CounterKeys(Normalized(anoms))

\* counts = Counter(anomalies): its keys, the distinct raw anomalies
CountKeys(anoms) == CounterKeys(anoms)

\* cnt_norm = norm_counts[norm]
NormCount(anoms, norm) == CountOf(Normalized(anoms), norm)

\* score_j = 1
ScoreJ == 1

\* occurrences counted once per clone instead of once per position
RowOfPerClone(anoms, cmap, anom) ==
    LET norm == normalize_anomaly(anom)
        ClonesOfKey(k) == IF k \in DOMAIN cmap THEN Range(cmap[k]) ELSE {}
        cnt_norm == Cardinality(UNION {ClonesOfKey(k) :
                                          k \in {a \in Range(anoms) : normalize_anomaly(a) = norm}})
        sc == ScoreISCN(norm, cnt_norm, detect_implicit_anomalies(anoms))
    IN [Anomalie |-> anom,
        Type |-> type_anomalie(norm),
        Explication |-> sc.expl,
        Occurrences |-> Cardinality(ClonesOfKey(anom)),
        Clones |-> IF anom \in DOMAIN cmap THEN cmap[anom] ELSE <<>>,
        ScoreJ |-> ScoreJ,
        ScoreI |-> sc.score]

\* the dict appended to rows for one item (anom, cnt) of counts
RowOf(anoms, cmap, anom) ==
    LET norm == normalize_anomaly(anom)
        sc == ScoreISCN(norm, NormCount(anoms, norm), detect_implicit_anomalies(anoms))
    IN [Anomalie |-> anom,
        Type |-> type_anomalie(norm),
        Explication |-> sc.expl,
        Occurrences |-> CountOf(anoms, anom),
        Clones |-> IF anom \in DOMAIN cmap THEN cmap[anom] ELSE <<>>,
        ScoreJ |-> ScoreJ,
        ScoreI |-> sc.score]

TOTAL == <<"T", "O", "T", "A", "L">>

\* the two totals written to each other's column
TotalRowSwapped(tj, ti) ==
    [Anomalie |-> TOTAL, Type |-> Cat(""), Explication |-> Expl(""), Occurrences |-> "",
     Clones |-> <<>>, ScoreJ |-> ti, ScoreI |-> tj]

TotalRowOf(tj, ti) ==
    [Anomalie |-> TOTAL, Type |-> Cat(""), Explication |-> Expl(""), Occurrences |-> "",
     Clones |-> <<>>, ScoreJ |-> tj, ScoreI |-> ti]

\* sum of field ScoreI / ScoreJ over a sequence of rows
RECURSIVE SumI(_)
SumI(rs) == IF rs = <<>> THEN 0 ELSE Head(rs).ScoreI + SumI(Tail(rs))

RECURSIVE SumJ(_)
SumJ(rs) == IF rs = <<>> THEN 0 ELSE Head(rs).ScoreJ + SumJ(Tail(rs))

\* the rows of the loop over counts.items()
ScoreRows(anoms, cmap) ==
    [k \in 1..Len(CountKeys(anoms)) |-> RowOf(anoms, cmap, CountKeys(anoms)[k])]

\* calcul_scores: the returned rows (total row last) and total_i
calcul_scores(anoms, cmap) ==
    LET rs == ScoreRows(anoms, cmap)
    IN [rows |-> Append(rs, TotalRowOf(SumJ(rs), SumI(rs))), total |-> SumI(rs)]

\* analyser_formule on a str, when parse_caryotype raises nothing
analyser_formule(f) ==
    LET p == parse_caryotype(f) IN calcul_scores(p.anomalies, p.clone_map)

(***************************************************************************)
(* Input formulas                                                          *)
(***************************************************************************)
\* '+8'
TokGain8 == <<"+", "8">>

\* '?+8'
TokQGain8 == <<"?", "+", "8">>

\* '+21c'
TokGain21c == <<"+", "2", "1", "c">>

\* '-9'
TokLoss9 == <<"-", "9">>

\* 't(9;22)(q34;q11)'
TokT922 == <<"t", "(", "9", ";", "2", "2", ")", "(", "q", "3", "4", ";", "q", "1", "1", ")">>

\* 'der(9)t(9;22)(q34;q11)'
TokDer9 == <<"d", "e", "r", "(", "9", ")", "t", "(", "9", ";", "2", "2", ")", "(", "q", "3", "4", ";", "q", "1", "1", ")">>

\* 'add(9)(q34)'
TokAdd9 == <<"a", "d", "d", "(", "9", ")", "(", "q", "3", "4", ")">>

\* 'der(9)add(9)(q34)t(9;22)(q34;q11)'
TokDer9Add == <<"d", "e", "r", "(", "9", ")", "a", "d", "d", "(", "9", ")", "(", "q", "3", "4", ")", "t", "(", "9", ";", "2", "2", ")", "(", "q", "3", "4", ";", "q", "1", "1", ")">>

\* 't(9;22)(q34;q11)dic(9)(q34)'
TokT922Dic == <<"t", "(", "9", ";", "2", "2", ")", "(", "q", "3", "4", ";", "q", "1", "1", ")", "d", "i", "c", "(", "9", ")", "(", "q", "3", "4", ")">>

\* 't(9;22)(q34;q11)ins(9)(q34)'
TokT922Ins == <<"t", "(", "9", ";", "2", "2", ")", "(", "q", "3", "4", ";", "q", "1", "1", ")", "i", "n", "s", "(", "9", ")", "(", "q", "3", "4", ")">>

\* 'dic(9)(q34)'
TokDic9 == <<"d", "i", "c", "(", "9", ")", "(", "q", "3", "4", ")">>

\* '?dic(9)(q34)'
TokQDic9 == <<"?", "d", "i", "c", "(", "9", ")", "(", "q", "3", "4", ")">>

\* '.'
TokDot == <<".">>

\* ''
TokEmpty == <<>>

\* ' +8.'
TokSpGain8Dot == <<" ", "+", "8", ".">>

\* 'der(1;7)(q10;p10)'
TokDer17 == <<"d", "e", "r", "(", "1", ";", "7", ")", "(", "q", "1", "0", ";", "p", "1", "0", ")">>

\* '+1'
TokGain1 == <<"+", "1">>

\* '+mar1'
TokMar1 == <<"+", "m", "a", "r", "1">>

\* '?der(9)t(9;22)(q34;q11)'
TokQDer9 == <<"?", "d", "e", "r", "(", "9", ")", "t", "(", "9", ";", "2", "2", ")", "(", "q", "3", "4", ";", "q", "1", "1", ")">>

\* '?der(9)add(9)(q34)t(9;22)(q34;q11)'
TokQDer9Add == <<"?", "d", "e", "r", "(", "9", ")", "a", "d", "d", "(", "9", ")", "(", "q", "3", "4", ")", "t", "(", "9", ";", "2", "2", ")", "(", "q", "3", "4", ";", "q", "1", "1", ")">>

\* 'der(22)t(22;9)(q11;q34)'
TokDer22Rev == <<"d", "e", "r", "(", "2", "2", ")", "t", "(", "2", "2", ";", "9", ")", "(", "q", "1", "1", ";", "q", "3", "4", ")">>

\* 'dic(9)t(9;11)(q34;q23)'
TokDic9T11 == <<"d", "i", "c", "(", "9", ")", "t", "(", "9", ";", "1", "1", ")", "(", "q", "3", "4", ";", "q", "2", "3", ")">>

\* 'idic(9)(q34)'
TokIdic9 == <<"i", "d", "i", "c", "(", "9", ")", "(", "q", "3", "4", ")">>

\* 'ider(9)(q10)'
TokIder9 == <<"i", "d", "e", "r", "(", "9", ")", "(", "q", "1", "0", ")">>

\* 'dic(9;22)(q34;q11)'
TokDic922 == <<"d", "i", "c", "(", "9", ";", "2", "2", ")", "(", "q", "3", "4", ";", "q", "1", "1", ")">>

\* '46,XX'
Head46 == <<"4", "6", ",", "X", "X">>

\* '47,XX'
Head47 == <<"4", "7", ",", "X", "X">>

\* '92,XX'
Head92 == <<"9", "2", ",", "X", "X">>

\* '69,XX'
Head69 == <<"6", "9", ",", "X", "X">>

\* 'mos,XX'
HeadNoDigit == <<"m", "o", "s", ",", "X", "X">>

\* '[20]'
Suffix20 == <<"[", "2", "0", "]">>

\* '46,XY,der(9)t(9;22)(q34;q11),add(9)(q34)/46,XY,der(9)t(9;22)(q34;q11)[cp5]'
C2Formula == <<"4", "6", ",", "X", "Y", ",", "d", "e", "r", "(", "9", ")", "t", "(", "9", ";", "2", "2", ")", "(", "q", "3", "4", ";", "q", "1", "1", ")", ",", "a", "d", "d", "(", "9", ")", "(", "q", "3", "4", ")", "/", "4", "6", ",", "X", "Y", ",", "d", "e", "r", "(", "9", ")", "t", "(", "9", ";", "2", "2", ")", "(", "q", "3", "4", ";", "q", "1", "1", ")", "[", "c", "p", "5", "]">>

\* a value that is not a str (an empty spreadsheet cell read by the batch caller)
NoneInput == <<"<not a str>">>

MaxClones == 2

MaxTok == 2

MaxRaw == 3

\* sep.join(q)
RECURSIVE Join(_, _)
Join(q, sep) ==
    IF q = <<>> THEN <<>>
    ELSE IF Len(q) = 1 THEN q[1]
    ELSE q[1] \o sep \o Join(Tail(q), sep)

SeqsUpTo(S, lo, hi) == UNION {[1..k -> S] : k \in lo..hi}

\* the ways to cut n tokens into c consecutive clones: cut[j] tokens belong to
\* the first j clones
Cuts(n, c) ==
    {cut \in [0..c -> 0..n] :
        /\ cut[0] = 0
        /\ cut[c] = n
        /\ \A j \in 1..c : cut[j - 1] <= cut[j]}

\* "<head>,<token>,...,<token><suffix>"
RenderClone(head, toks, suffix) == Join(<<head>> \o toks, <<",">>) \o suffix

\* the formulas "<clone>/.../<clone>" of at most MaxClones clones that hold at
\* most MaxTok anomaly tokens of the pool altogether
FormulasOver(heads, pool, suffix) ==
    UNION {UNION {{Join([j \in 1..c |->
                            RenderClone(hd[j], SubSeq(toks, cut[j - 1] + 1, cut[j]), suffix)],
                        <<"/">>) :
                      hd \in [1..c -> heads], cut \in Cuts(Len(toks), c)} :
                  toks \in SeqsUpTo(pool, 0, MaxTok)} :
              c \in 1..MaxClones}

\* every kind of ploidy field, and the clone with no field at all
PloidyFormulas == FormulasOver({Head46, Head47, Head92, Head69, HeadNoDigit, <<>>}, {}, <<>>)

\* ploidy pseudo-anomalies next to anomalies and cell counts
SuffixFormulas == FormulasOver({Head47, Head92}, {TokGain8}, Suffix20)

CountFormulas == FormulasOver({Head47}, {TokGain8, TokQGain8, TokGain21c}, <<>>)

DerivativeFormulas == FormulasOver({Head46}, {TokDer9, TokDer9Add, TokLoss9}, <<>>)

TranslocationFormulas == FormulasOver({Head46}, {TokT922, TokT922Dic, TokT922Ins}, <<>>)

DicentricFormulas == FormulasOver({Head46}, {TokDic9, TokQDic9}, <<>>)

\* stray dots, empty fields and blanks
StrayFormulas == FormulasOver({Head46}, {TokDot, TokEmpty, TokSpGain8Dot}, <<>>)

\* gains and losses next to derivatives that involve the same chromosome
GainLossFormulas ==
    FormulasOver({Head46}, {TokDer17, TokGain1, TokMar1, TokQDer9, TokLoss9}, <<>>)

\* derivatives of the same and of different translocations, with and without an
\* explicit add
PairFormulas ==
    FormulasOver({Head46}, {TokDer9, TokQDer9Add, TokDer22Rev, TokDic9T11}, <<>>)

\* dicentric, isodicentric and isoderivative chromosomes
ResolverFormulas == FormulasOver({Head46}, {TokDic9, TokIdic9, TokIder9, TokDic922}, <<>>)

RawAlphabet == {",", ".", "/", "[", "]", " ", "9"}

\* every short string over the separators of the grammar
RawFormulas == SeqsUpTo(RawAlphabet, 0, MaxRaw)

Formulas ==
    PloidyFormulas \cup SuffixFormulas \cup CountFormulas \cup DerivativeFormulas
        \cup TranslocationFormulas \cup DicentricFormulas \cup StrayFormulas
        \cup RawFormulas \cup {C2Formula}
        \cup GainLossFormulas \cup PairFormulas \cup ResolverFormulas

(***************************************************************************)
(* analyser_formule as a state machine                                     *)
(***************************************************************************)
VARIABLES formule, pc, clones, idx, pl, anomalies, clone_map, caught, exc,
          rows, total_j, total_i, ret

vars == <<formule, pc, clones, idx, pl, anomalies, clone_map, caught, exc,
          rows, total_j, total_i, ret>>

NoRet == [has_df |-> FALSE, df |-> <<>>, total |-> 0, err |-> ""]

Init ==
    /\ formule \in Formulas \cup {NoneInput}
    /\ pc = "call"
    /\ clones = <<>>
    /\ idx = 0
    /\ pl = UNBOUND
    /\ anomalies = <<>>
    /\ clone_map = << >>
    /\ caught = <<>>
    /\ exc = "none"
    /\ rows = <<>>
    /\ total_j = 0
    /\ total_i = 0
    /\ ret = NoRet

\* analyser_formule calls parse_caryotype: whitespace removal, split on '/',
\* bracket removal; re.sub raises TypeError when the argument is not a str
Call ==
    /\ pc = "call"
    /\ IF formule = NoneInput
       THEN /\ exc' = "TypeError"
            /\ pc' = "except"
            /\ UNCHANGED clones
       ELSE /\ clones' = ClonesOf(formule)
            /\ pc' = "parse"
            /\ UNCHANGED exc
    /\ UNCHANGED <<formule, idx, pl, anomalies, clone_map, caught, rows, total_j, total_i, ret>>

\* one iteration of "for idx, clone in enumerate(clones, start=1)"
ParseClone ==
    /\ pc = "parse"
    /\ idx < Len(clones)
    /\ LET st == CloneStep([pl |-> pl, anomalies |-> anomalies, clone_map |-> clone_map,
                            caught |-> caught, exc |-> exc],
                           clones[idx + 1], idx + 1)
       IN /\ idx' = idx + 1
          /\ pl' = st.pl
          /\ anomalies' = st.anomalies
          /\ clone_map' = st.clone_map
          /\ caught' = st.caught
          /\ exc' = st.exc
          /\ pc' = IF st.exc # "none" THEN "except" ELSE "parse"
    /\ UNCHANGED <<formule, clones, rows, total_j, total_i, ret>>

\* parse_caryotype returns (anomalies, clone_map); calcul_scores starts
ParseReturn ==
    /\ pc = "parse"
    /\ idx = Len(clones)
    /\ pc' = "score"
    /\ UNCHANGED <<formule, clones, idx, pl, anomalies, clone_map, caught, exc,
                   rows, total_j, total_i, ret>>

\* one iteration of "for anom, cnt in counts.items()"
ScoreRow ==
    /\ pc = "score"
    /\ Len(rows) < Len(CountKeys(anomalies))
    /\ LET row == RowOf(anomalies, clone_map, CountKeys(anomalies)[Len(rows) + 1])
       IN /\ rows' = Append(rows, row)
          /\ total_j' = total_j + row.ScoreJ
          /\ total_i' = total_i + row.ScoreI
    /\ UNCHANGED <<formule, pc, clones, idx, pl, anomalies, clone_map, caught, exc, ret>>

\* calcul_scores returns total_j in place of total_i
ReturnTotalJ ==
    /\ pc = "score"
    /\ Len(rows) = Len(CountKeys(anomalies))
    /\ rows' = Append(rows, TotalRowOf(total_j, total_i))
    /\ ret' = [has_df |-> TRUE, df |-> rows', total |-> total_j, err |-> ""]
    /\ pc' = "done"
    /\ UNCHANGED <<formule, clones, idx, pl, anomalies, clone_map, caught, exc,
                   total_j, total_i>>

\* the total row is appended; calcul_scores returns (DataFrame(rows), total_i)
\* and analyser_formule returns (df, total, None)
Return ==
    /\ pc = "score"
    /\ Len(rows) = Len(CountKeys(anomalies))
    /\ rows' = Append(rows, TotalRowOf(total_j, total_i))
    /\ ret' = [has_df |-> TRUE, df |-> rows', total |-> total_i, err |-> ""]
    /\ pc' = "done"
    /\ UNCHANGED <<formule, clones, idx, pl, anomalies, clone_map, caught, exc,
                   total_j, total_i>>

\* "except Exception as e" of analyser_formule
HandleFault ==
    /\ pc = "except"
    /\ ret' = [has_df |-> FALSE, df |-> <<>>, total |-> 0,
               err |-> "Erreur lors de l'analyse de la formule: " \o exc]
    /\ exc' = "none"
    /\ pc' = "done"
    /\ UNCHANGED <<formule, clones, idx, pl, anomalies, clone_map, caught,
                   rows, total_j, total_i>>

Next == Call \/ ParseClone \/ ParseReturn \/ ScoreRow \/ Return \/ HandleFault

Spec == Init /\ [][Next]_vars

(***************************************************************************)
(* Properties                                                              *)
(***************************************************************************)
Finished == pc = "done" /\ ret.has_df

\* indices of the score rows (the total row is the last row)
ScoreIdx == 1..(Len(rows) - 1)

\* the ploidy integer of a clone: -1 when the first field is missing or has no digit
PloidyInt(clone) ==
    IF PartsOf(clone) = <<>> \/ DigitsOf(PartsOf(clone)[1]) = <<>> THEN -1
    ELSE IntOf(DigitsOf(PartsOf(clone)[1]))

\* how many times clone i is listed under key k of the clone membership map
LabelCount(k, i) ==
    IF k \in DOMAIN clone_map
    THEN Cardinality({n \in 1..Len(clone_map[k]) : clone_map[k][n] = i})
    ELSE 0

\* the anomaly fields (third field onward) of clone i, as written in the formula
FieldsOf(i) == SliceFrom2(PartsOf(clones[i]))

\* the positions <<clone, field>> of the formula at which anomaly a is written
RawPositions(a) ==
    UNION {{<<i, n>> : n \in {m \in 1..Len(FieldsOf(i)) : FieldsOf(i)[m] = a}} :
              i \in 1..Len(clones)}

\* the positions at which a token equal to norm after normalization is written
NormPositions(norm) ==
    UNION {{<<i, n>> : n \in {m \in 1..Len(FieldsOf(i)) : normalize_anomaly(FieldsOf(i)[m]) = norm}} :
              i \in 1..Len(clones)}

\* C1: for every clone already parsed, a ploidy pseudo-anomaly is emitted for it
\* iff its ploidy integer is 92 (exactly one Tetraploidy) or 69 (exactly one
\* Triploidy); a clone with ploidy 46, no ploidy or another value contributes
\* no label to the Tetraploidy/Triploidy entries of the clone membership map.
C1_PloidyPerClone ==
    pc \in {"parse", "score", "done"} /\ exc = "none" =>
        \A i \in 1..idx :
            /\ LabelCount(Tetraploidy, i) = IF PloidyInt(clones[i]) = 92 THEN 1 ELSE 0
            /\ LabelCount(Triploidy, i) = IF PloidyInt(clones[i]) = 69 THEN 1 ELSE 0

\* the row of der(9)t(9;22)(q34;q11) in the analysis of the formula of C2
C2_DerRows == {i \in ScoreIdx : rows[i].Anomalie = TokDer9}

\* C2 (as stated): in the analysis of the formula of C2 the derivative
\* der(9)t(9;22)(q34;q11) scores 0 under convention I as an implicit derivative
\* that references add(9)(q34), and 1 under convention J.
C2_ImplicitSuppression ==
    Finished /\ formule = C2Formula =>
        /\ C2_DerRows # {}
        /\ \A i \in C2_DerRows :
              /\ rows[i].ScoreI = 0
              /\ rows[i].Explication.reason = "Derive implicite"
              /\ rows[i].Explication.ref = TokAdd9
              /\ rows[i].ScoreJ = 1

\* C2 (amended): in the analysis of the formula of C2 the derivative has one row
\* for both clones (occurrence count 2), is not implicit, scores 2 under
\* convention I as a complex multichromosomal imbalance, and 1 under convention J.
C2_DerivativeScoresTwo ==
    Finished /\ formule = C2Formula =>
        /\ Cardinality(C2_DerRows) = 1
        /\ \A i \in C2_DerRows :
              /\ rows[i].ScoreI = 2
              /\ rows[i].Explication = Expl("Desequilibre multichromosomique complexe (2 points)")
              /\ rows[i].Occurrences = 2
              /\ rows[i].Clones = <<1, 2>>
              /\ rows[i].ScoreJ = 1
        /\ DOMAIN detect_implicit_anomalies(anomalies) = {}

C2_Witness == Finished /\ formule = C2Formula /\ C2_DerRows # {} /\ Len(rows) = 3

\* C3: parse_caryotype raises nothing for a str (an exception of the ploidy block
\* is caught inside it), no exception outlives analyser_formule, and the outcome
\* is (result, total, no error) for every str and (no result, 0, error) otherwise.
C3_NeverRaises ==
    /\ exc # "none" => pc = "except" /\ formule = NoneInput
    /\ pc = "done" =>
          /\ exc = "none"
          /\ IF formule # NoneInput
             THEN ret.has_df /\ ret.err = "" /\ ret.total = total_i /\ ret.df = rows
             ELSE ~ret.has_df /\ ret.total = 0 /\ ret.err # "" /\ ret.df = <<>>

C3_Witness ==
    /\ pc = "done"
    /\ formule = <<>>
    /\ caught = <<"IndexError">>
    /\ ret.has_df /\ ret.total = 0 /\ Len(ret.df) = 1

\* the anomalies of the score rows
RowNames == {rows[i].Anomalie : i \in ScoreIdx}

\* C4 (as stated): the result holds exactly one score row per distinct
\* normalized anomaly, so '?X' and 'X' share one row and count once in the totals.
C4_RowPerNormalized ==
    Finished =>
        /\ Len(rows) - 1 = Cardinality({normalize_anomaly(a) : a \in Range(anomalies)})
        /\ \A i, j \in ScoreIdx :
              normalize_anomaly(rows[i].Anomalie) = normalize_anomaly(rows[j].Anomalie) => i = j

\* C4 (amended): the result holds exactly one score row per distinct raw anomaly
\* string; rows whose anomalies are equal after normalization have the same
\* category, explanation and convention I score, but '?X' and 'X' keep a row
\* each and each row adds its scores to the convention J and I totals.
C4_RowPerRawString ==
    Finished =>
        /\ RowNames = Range(anomalies)
        /\ Len(rows) - 1 = Cardinality(Range(anomalies))
        /\ \A i, j \in ScoreIdx :
              normalize_anomaly(rows[i].Anomalie) = normalize_anomaly(rows[j].Anomalie) =>
                  /\ rows[i].Type = rows[j].Type
                  /\ rows[i].Explication = rows[j].Explication
                  /\ rows[i].ScoreI = rows[j].ScoreI
        /\ rows[Len(rows)].ScoreJ = SumJ(SubSeq(rows, 1, Len(rows) - 1))
        /\ rows[Len(rows)].ScoreI = SumI(SubSeq(rows, 1, Len(rows) - 1))

C4_Witness ==
    /\ Finished
    /\ {TokGain8, TokQGain8} \subseteq RowNames
    /\ rows[Len(rows)].ScoreJ = 2
    /\ rows[Len(rows)].ScoreI = 4

\* C5 (as stated): the occurrence count of every row is the number of clones in
\* which the anomaly appears, a token repeated inside one clone counting once
\* (the empty token, which is the subject of C8, is left aside).
C5_CountIsClones ==
    Finished =>
        \A i \in ScoreIdx :
            rows[i].Anomalie # <<>> =>
                rows[i].Occurrences = Cardinality(Range(rows[i].Clones))

\* C5 (amended): the occurrence count of every row is the length of its clone
\* label list and, for every anomaly but the ploidy pseudo-anomalies, the number
\* of positions (anomaly fields of all clones, repeats inside a clone included)
\* at which the raw anomaly string is written;
\* a '+' token that is neither constitutional nor implicit is scored as a
\* single-chromosome imbalance iff the tokens equal to it after normalization
\* fill more than one position.
C5_CountIsPositions ==
    Finished =>
        \A i \in ScoreIdx :
            LET a == rows[i].Anomalie
                norm == normalize_anomaly(a)
            IN /\ rows[i].Occurrences = Len(rows[i].Clones)
               /\ a \notin {Tetraploidy, Triploidy} =>
                     /\ rows[i].Occurrences = Cardinality(RawPositions(a))
                     /\ (StartsWith(norm, PLUS)
                           /\ ~IsConstitutional(norm)
                           /\ rows[i].Explication.reason = "") =>
                            (rows[i].Explication.text = "Desequilibre unichromosomique (2 points)"
                                <=> Cardinality(NormPositions(norm)) > 1)

C5_Witness ==
    /\ Finished
    /\ \E i \in ScoreIdx :
          /\ rows[i].Anomalie = TokGain8
          /\ rows[i].Occurrences = 2
          /\ rows[i].Clones = <<1, 1>>
          /\ rows[i].ScoreI = 2

\* C6 (as stated): every token for which the balanced-translocation predicate
\* holds gets the category 'Balanced translocation' and exactly 1 point under
\* convention I.
C6_BalancedScoresOne ==
    Finished =>
        \A i \in ScoreIdx :
            is_balanced_translocation(normalize_anomaly(rows[i].Anomalie)) =>
                /\ rows[i].Type = Cat("Translocation equilibree")
                /\ rows[i].ScoreI = 1

\* C6 (amended): every token for which the balanced-translocation predicate
\* holds and which contains neither 'dic' nor 'ins(' gets the category
\* 'Balanced translocation' and exactly 1 point under convention I.
C6_PureBalancedScoresOne ==
    Finished =>
        \A i \in ScoreIdx :
            LET norm == normalize_anomaly(rows[i].Anomalie)
            IN is_balanced_translocation(norm) /\ ~Contains(norm, DIC) /\ ~Contains(norm, INSPAR) =>
                   /\ rows[i].Type = Cat("Translocation equilibree")
                   /\ rows[i].ScoreI = 1
                   /\ rows[i].Explication = Expl("Anomalie standard (1 point)")

C6_Witness ==
    /\ Finished
    /\ \E i \in ScoreIdx :
          /\ rows[i].Anomalie = TokT922
          /\ rows[i].Type = Cat("Translocation equilibree")
          /\ rows[i].ScoreI = 1

\* s with character c inserted before index p
InsertAt(s, p, c) == SubSeq(s, 1, p - 1) \o <<c>> \o SubSeq(s, p, Len(s))

\* the indices at which a comma-separated field of the formula starts
FieldStarts == {p \in 2..(Len(formule) + 1) : formule[p - 1] = ","}

\* the anomalies that writing '?' at index p turns from X into '?X', every other
\* anomaly of the formula staying as it is
MarkedBy(p) ==
    LET v == parse_caryotype(InsertAt(formule, p, "?")).anomalies
    IN {k \in 1..Len(anomalies) : v = [anomalies EXCEPT ![k] = <<"?">> \o @]}

\* the row of anomaly a in the analysis of the formula with '?' written at index p
VariantRow(p, a) ==
    LET v == parse_caryotype(InsertAt(formule, p, "?"))
    IN RowOf(v.anomalies, v.clone_map, a)

\* the row of anomaly a in a sequence of rows
RowFor(rs, a) == rs[CHOOSE i \in 1..(Len(rs) - 1) : rs[i].Anomalie = a]

\* C7: for every formula and every anomaly X in it, writing '?X' instead of X
\* gives a result in which '?X' has the category, the implicit status (reason
\* and reference kind) and the convention I score that X has in the original.
C7_QuestionMarkCosmetic ==
    Finished =>
        \A p \in FieldStarts : \A k \in MarkedBy(p) :
                LET orig == RowFor(rows, anomalies[k])
                    var == VariantRow(p, <<"?">> \o anomalies[k])
                IN /\ var.Type = orig.Type
                   /\ var.Explication.reason = orig.Explication.reason
                   /\ var.Explication.text = orig.Explication.text
                   /\ var.ScoreI = orig.ScoreI

C7_Witness ==
    /\ Finished
    /\ \E p \in FieldStarts : \E k \in MarkedBy(p) :
          /\ anomalies[k] = TokDer9
          /\ RowFor(rows, TokDer9).Explication.reason = "Derive implicite"
          /\ RowFor(rows, TokDer9).ScoreI = 0

\* C8: every anomaly that parse_caryotype puts in the token list and in the
\* clone membership map is non-empty after trimming leading and trailing dots
\* and commas.
C8_TokensNonEmpty ==
    /\ \A i \in 1..Len(anomalies) : Strip(anomalies[i], {".", ","}) # <<>>
    /\ \A k \in DOMAIN clone_map : Strip(k, {".", ","}) # <<>>

\* C9: every score row has convention J score 1, and the convention J total of
\* the total row is the number of score rows, which is the number of distinct
\* anomaly strings the tokenizer found.
C9_TotalJ ==
    Finished =>
        /\ \A i \in ScoreIdx : rows[i].ScoreJ = 1
        /\ rows[Len(rows)].ScoreJ = Len(rows) - 1
        /\ Len(rows) - 1 = Cardinality(Range(anomalies))

C9_Witness ==
    /\ Finished
    /\ Len(rows) = 3
    /\ \E i, j \in ScoreIdx : rows[i].Type # rows[j].Type /\ rows[i].Occurrences > 1
    /\ rows[Len(rows)].ScoreJ = 2

\* C10: every row scores 0, 1 or 2 under convention I; the convention I total
\* returned by analyser_formule and stored in the total row is the sum of the
\* row scores, at least 0 and at most twice the number of score rows.
C10_TotalI ==
    /\ pc \in {"score", "done"} /\ exc = "none" /\ formule # NoneInput =>
          total_i = SumI(SubSeq(rows, 1, IF pc = "done" THEN Len(rows) - 1 ELSE Len(rows)))
    /\ Finished =>
          /\ \A i \in ScoreIdx : rows[i].ScoreI \in {0, 1, 2}
          /\ ret.total = rows[Len(rows)].ScoreI
          /\ ret.total = SumI(SubSeq(rows, 1, Len(rows) - 1))
          /\ ret.total >= 0
          /\ ret.total <= 2 * (Len(rows) - 1)

C10_Witness ==
    /\ Finished
    /\ \E i, j \in ScoreIdx : rows[i].ScoreI = 0 /\ rows[j].ScoreI = 2
    /\ ret.total = 2

\* a simple gain or loss: '+' or '-' followed by digits only
IsSimpleGainLoss(an) ==
    /\ Len(an) >= 2
    /\ an[1] \in {"+", "-"}
    /\ \A i \in 2..Len(an) : an[i] \in Digits

\* the positions of the token list holding a token that starts with der/dic,
\* whose chromosome set (der/dic list and every t(...) list) has more than one
\* element and contains the chromosome number n
RegisteringAt(n) ==
    {i \in 1..Len(anomalies) :
        LET d == normalize_anomaly(anomalies[i])
        IN /\ RegistersMulti(d)
           /\ n \in DerChroms(d)}

\* C11: over the tokens of one formula, a token is marked implicit with reason
\* 'Implicit gain/loss' exactly when it is a simple gain/loss token (+N or -N)
\* and N is registered by some der/dic token with more than one chromosome; its
\* reference is then the first-registered such derivative as first written in
\* the formula, and its row scores 0 under convention I.
C11_ImplicitGainLossExact ==
    Finished =>
        LET info == detect_implicit_anomalies(anomalies)
        IN \A i \in ScoreIdx :
               LET an == normalize_anomaly(rows[i].Anomalie)
                   marked == an \in DOMAIN info /\ info[an].reason = "Gain/perte implicite"
                   regs == RegisteringAt(SubSeq(an, 2, Len(an)))
               IN /\ marked <=> (IsSimpleGainLoss(an) /\ regs # {})
                  /\ marked /\ regs # {} =>
                        /\ info[an].ref = anomalies[MinOf(regs)]
                        /\ rows[i].ScoreI = 0

\* the unordered pair {A, B} of a token of the shape (der|dic)(<chrom>)...t(<A>;<B>)
PairOf(an) == {TEventA(an), TEventB(an)}

\* the positions of the token list holding an explicit member (one containing
\* 'add', 'del' or 'dup') of the group of token an
ExplicitAt(an) ==
    {j \in 1..Len(anomalies) :
        LET d == normalize_anomaly(anomalies[j])
        IN /\ TEventMatch(d)
           /\ PairOf(d) = PairOf(an)
           /\ IsExplicit(d)}

\* C12: normalized tokens of the shape (der|dic)(<chrom>)...t(<A>;<B>) are
\* grouped by the unordered pair {A,B}; a member is marked implicit with reason
\* 'Implicit derivative' exactly when its group has an explicit member and it is
\* not explicit itself; its reference is the first explicit member of the group
\* as first written in the formula; no explicit member is marked and in a group
\* without explicit member nothing is marked.
C12_ImplicitDerivative ==
    Finished =>
        LET info == detect_implicit_anomalies(anomalies)
        IN \A i \in ScoreIdx :
               LET an == normalize_anomaly(rows[i].Anomalie)
                   marked == an \in DOMAIN info /\ info[an].reason = "Derive implicite"
               IN IF ~TEventMatch(an) THEN ~marked
                  ELSE /\ marked <=> (ExplicitAt(an) # {} /\ ~IsExplicit(an))
                       /\ marked =>
                             /\ info[an].ref = anomalies[MinOf(ExplicitAt(an))]
                             /\ rows[i].Explication = [text |-> "(0 point)",
                                                       reason |-> "Derive implicite",
                                                       ref |-> anomalies[MinOf(ExplicitAt(an))]]
                       /\ IsExplicit(an) \/ ExplicitAt(an) = {} => an \notin DOMAIN info

C12_Witness ==
    /\ Finished
    /\ anomalies = <<TokQDer9Add, TokDer22Rev>>
    /\ rows[2].Explication.reason = "Derive implicite"
    /\ rows[2].Explication.ref = TokQDer9Add
    /\ rows[1].Explication.reason = ""

\* the labels of rules 19, 20 and 21
LateLabels == {"Chromosome dicentrique", "Isodicentric chromosome", "Isoderivative chromosome"}

\* C13 (as stated): rules 19-21 are unreachable, no row has the category
\* 'Dicentric chromosome', 'Isodicentric chromosome' or 'Isoderivative
\* chromosome'.
C13_Rules19to21Unreachable ==
    Finished => \A i \in ScoreIdx : rows[i].Type.label \notin LateLabels

\* the category rules 19-21 give to a token, "" when it starts with none of
\* 'dic', 'idic', 'ider'
LateLabelOf(norm) ==
    IF StartsWith(norm, DIC) THEN "Chromosome dicentrique"
    ELSE IF StartsWith(norm, IDIC) THEN "Isodicentric chromosome"
    ELSE IF StartsWith(norm, IDER) THEN "Isoderivative chromosome"
    ELSE ""

\* C13 (amended): rules 9-18 never match a token that starts with 'dic', 'idic'
\* or 'ider', so rules 19-21 are reachable: such a token gets the category
\* 'Dicentric chromosome', 'Isodicentric chromosome' or 'Isoderivative
\* chromosome' of its prefix exactly when none of rules 1 (complex
\* multichromosomal imbalance), 3 (unbalanced translocation), 6 ('~') and 8
\* ('dmin') matches it, and the category of the first of those rules otherwise;
\* no other token gets one of these three categories.
C13_Rules19to21Reached ==
    Finished =>
        \A i \in ScoreIdx :
            LET norm == normalize_anomaly(rows[i].Anomalie)
                earlier == IF is_complex_multichr_deseq(norm) THEN "Multichromosomique desequilibree"
                           ELSE IF is_unbalanced_translocation(norm) THEN "Translocation desequilibree"
                           ELSE IF Contains(norm, TILDE) THEN "Pleiade chromosomique"
                           ELSE IF Contains(norm, DMIN) THEN "Double minutes"
                           ELSE ""
            IN IF LateLabelOf(norm) = "" THEN rows[i].Type.label \notin LateLabels
               ELSE rows[i].Type = Cat(IF earlier # "" THEN earlier ELSE LateLabelOf(norm))

C13_Witness ==
    /\ Finished
    /\ \E i, j \in ScoreIdx :
          /\ rows[i].Anomalie = TokIdic9 /\ rows[i].Type = Cat("Isodicentric chromosome")
          /\ rows[j].Anomalie = TokIder9 /\ rows[j].Type = Cat("Isoderivative chromosome")

\* the merged rule: constitutional 0, implicit 0, the shared classification
\* block 2, a token starting with 'dic' 2, any other token 1
MergedScoreI(norm, cnt_norm, implicit_info) ==
    IF IsConstitutional(norm) THEN 0
    ELSE IF norm \in DOMAIN implicit_info THEN 0
    ELSE IF \/ is_single_chr_deseq(norm, cnt_norm)
            \/ is_complex_multichr_deseq(norm)
            \/ is_unbalanced_translocation(norm) THEN 2
    ELSE IF StartsWith(norm, DIC) THEN 2
    ELSE 1

\* the outputs the implicit detector can give for a token: the one of the
\* formula, none, and one that marks the token
InfosFor(norm) ==
    {detect_implicit_anomalies(anomalies), << >>,
     norm :> [reason |-> "Gain/perte implicite", ref |-> norm]}

\* C14: for every normalized token, occurrence count and implicit-detector
\* output, the convention I score of the five-branch chain equals the merged
\* rule (0 if constitutional, else 0 if implicit, else 2 if single-chromosome
\* unbalanced, complex multichromosomal or unbalanced translocation, else 2 if
\* the token starts with 'dic', else 1); the row score is the merged rule on the
\* occurrence count and detector output of the formula; the branch for '+'/'-'
\* tokens and the final branch give the same score and explanation.
C14_MergedRule ==
    Finished =>
        \A i \in ScoreIdx :
            LET norm == normalize_anomaly(rows[i].Anomalie)
            IN /\ rows[i].ScoreI = MergedScoreI(norm, NormCount(anomalies, norm),
                                                detect_implicit_anomalies(anomalies))
               /\ \A cnt \in 1..(MaxTok + 1) :
                     /\ GainLossBlock(norm, cnt) = StandardBlock(norm, cnt)
                     /\ \A info \in InfosFor(norm) :
                           ScoreISCN(norm, cnt, info).score = MergedScoreI(norm, cnt, info)

C14_Witness ==
    /\ Finished
    /\ anomalies = <<TokLoss9, TokDer17>>
    /\ rows[1].Explication = Expl("Anomalie standard (1 point)")
    /\ rows[1].ScoreI = 1
    /\ rows[2].Explication = Expl("Desequilibre multichromosomique complexe (2 points)")
    /\ rows[2].ScoreI = 2

====
